---- MODULE Spec2Model ----
(***************************************************************************)
(* A model of nu_plugin_git_prompt (src/src/main.rs): GitPrompt::run, the  *)
(* one request handler, and GitStatus::init / get_green / get_yellow /     *)
(* get_gray / get_red.                                                     *)
(*                                                                         *)
(* A Rust String is a sequence of characters, each character a one-letter  *)
(* TLA+ string; a character outside ASCII is named by its code point, as   *)
(* in "U+2191" (the up arrow), so that the module stays ASCII.             *)
(* The host, the file system, the repository and the git binary are the    *)
(* environment: what each call returns is chosen when the call is made.    *)
(***************************************************************************)
EXTENDS Integers, Sequences, FiniteSets, Bags, TLC

VARIABLES
    pc,           \* position in run / GitStatus::init
    ret,          \* the return statement of run that was taken ("" = none yet)
    result,       \* the string of the returned Value
    current_dir,  \* what engine.get_current_dir() and is_dir() answered
    git_dir,      \* what the walk of <cwd>/.git yielded (lives in lines 66-80)
    size,         \* run's local `size` (lives in lines 68-79)
    repo,         \* Repository::open: "unopened", "ok" or "err"
    head,         \* what repo.head() and the calls below it answered
    describe,     \* what the `git describe` subprocess answered
    statuses,     \* what repo.statuses() answered
    local,        \* the locals of GitStatus::init (lines 168-250, 265-315)
    git_status    \* the Option<GitStatus> that init returned

vars == <<pc, ret, result, current_dir, git_dir, size, repo, head, describe,
          statuses, local, git_status>>

\* ------------------------------------------------------------------ bounds

\* Entries yielded by the walk of .git.
MaxWalk == 2
\* Distinct status values in one status list.
MaxKinds == 2
\* Largest small ahead/behind count the repository reports.
MaxDiv == 1
\* Counters that are non-zero in a snapshot handed to the renderer.
MaxNonZero == 2
\* How many times over a divergence count exceeds the width of a u16.
MaxWraps == 2

\* ---------------------------------------------------------------- constants

\* 2^16: the counters of GitStatus are u16.
U16 == 65536
\* The size guard's threshold, in bytes.
SizeLimit == 1000000000

\* ------------------------------------------------------------------ strings

Space == " "
UpArrow == "U+2191"
DownArrow == "U+2193"
\* Line 91: the character of the literal, U+F0C2 (bytes ef 83 82), a glyph of
\* the private use area.
RemoteGlyph == "U+F0C2"
EmptyStr == <<>>

S_HEAD == <<"H", "E", "A", "D">>
S_master == <<"m", "a", "s", "t", "e", "r">>
S_main == <<"m", "a", "i", "n">>
\* Reference names may hold white space other than the ASCII one, which git
\* refuses: a branch "<U+3000>wide", a branch "main<U+00A0>".
S_wide == <<"U+3000", "w", "i", "d", "e">>
S_main_nbsp == <<"m", "a", "i", "n", "U+00A0">>
S_upstream == <<"o", "r", "i", "g", "i", "n", "/", "m", "a", "i", "n">>
S_tag == <<"v", "1", ".", "2", ".", "0">>

\* Characters str::trim removes: those with the Unicode property White_Space,
\* U+0009..U+000D, U+0020, U+0085, U+00A0, U+1680, U+2000..U+200A, U+2028,
\* U+2029, U+202F, U+205F and U+3000.
WhiteSpace ==
    {"\t", "\n", "U+000B", "\f", "\r", " ", "U+0085", "U+00A0", "U+1680",
     "U+2000", "U+2001", "U+2002", "U+2003", "U+2004", "U+2005", "U+2006",
     "U+2007", "U+2008", "U+2009", "U+200A", "U+2028", "U+2029", "U+202F",
     "U+205F", "U+3000"}

DecDigits == <<"0", "1", "2", "3", "4", "5", "6", "7", "8", "9">>
HexDigits == DecDigits \o <<"a", "b", "c", "d", "e", "f">>

\* format!("{}", n) of an unsigned integer: decimal, no padding.
RECURSIVE ToDec(_)
ToDec(n) ==
    IF n < 10 THEN <<DecDigits[n + 1]>>
    ELSE ToDec(n \div 10) \o <<DecDigits[(n % 10) + 1]>>

\* write!(&mut id, "{byte:x}"): lower-case hex, no width, no padding.
RECURSIVE LowerHex(_)
LowerHex(byte) ==
    IF byte < 16 THEN <<HexDigits[byte + 1]>>
    ELSE LowerHex(byte \div 16) \o <<HexDigits[(byte % 16) + 1]>>

\* Vec<String>::join(sep).
RECURSIVE Join(_, _)
Join(v, sep) ==
    IF Len(v) = 0 THEN EmptyStr
    ELSE IF Len(v) = 1 THEN v[1]
    ELSE v[1] \o sep \o Join(Tail(v), sep)

RECURSIVE TrimStart(_)
TrimStart(s) ==
    IF Len(s) > 0 /\ s[1] \in WhiteSpace THEN TrimStart(Tail(s)) ELSE s

RECURSIVE TrimEnd(_)
TrimEnd(s) ==
    IF Len(s) > 0 /\ s[Len(s)] \in WhiteSpace
    THEN TrimEnd(SubSeq(s, 1, Len(s) - 1))
    ELSE s

\* str::trim().
Trim(s) == TrimEnd(TrimStart(s))

\* v.push(x) when cond holds, v otherwise.
PushIf(v, cond, x) == IF cond THEN Append(v, x) ELSE v

\* ---------------------------------------------------------------- GitStatus

CounterNames ==
    <<"index_new", "index_modified", "index_deleted", "index_renamed",
      "index_typechange", "wt_new", "wt_modified", "wt_deleted", "wt_renamed",
      "wt_typechange", "ignored", "conflicted", "ahead", "behind">>

\* The twelve counters the status loop writes.
FileCounters == {CounterNames[i] : i \in 1..12}

FieldNames == {"branch", "tag", "remote"} \cup {CounterNames[i] : i \in 1..14}

\* Lines 168-185: every counter 0, remote empty; branch and tag are declared
\* later (lines 187 and 239) and are empty here until then.
InitLocal ==
    [f \in FieldNames |-> IF f \in {"branch", "tag", "remote"} THEN EmptyStr ELSE 0]

get_green(self) ==
    LET g1 == PushIf(<<>>, self.index_new > 0, <<"+">> \o ToDec(self.index_new))
        g2 == PushIf(g1, self.index_modified > 0,
                     <<"+", "~">> \o ToDec(self.index_modified))
        g3 == PushIf(g2, self.index_renamed > 0,
                     <<"+", "-", ">">> \o ToDec(self.index_renamed))
        g4 == PushIf(g3, self.index_typechange > 0,
                     <<"+", "t">> \o ToDec(self.index_typechange))
    IN  Join(g4, <<Space>>)

get_yellow(self) ==
    LET y1 == PushIf(<<>>, self.wt_new > 0, <<"?">> \o ToDec(self.wt_new))
        y2 == PushIf(y1, self.wt_modified > 0, <<"~">> \o ToDec(self.wt_modified))
        y3 == PushIf(y2, self.wt_renamed > 0,
                     <<"-", ">">> \o ToDec(self.wt_renamed))
        y4 == PushIf(y3, self.wt_typechange > 0,
                     <<"t">> \o ToDec(self.wt_typechange))
        y5 == PushIf(y4, self.ahead > 0, <<UpArrow>> \o ToDec(self.ahead))
        y6 == PushIf(y5, self.behind > 0, <<DownArrow>> \o ToDec(self.behind))
    IN  Join(y6, <<Space>>)

get_gray(self) ==
    IF self.ignored > 0 THEN <<"!">> \o ToDec(self.ignored) ELSE EmptyStr

\* get_red with the conflicts pushed first.
get_red_conflicts_first(self) ==
    LET r1 == PushIf(<<>>, self.conflicted > 0, <<"c">> \o ToDec(self.conflicted))
        r2 == PushIf(r1, self.index_deleted > 0,
                     <<"+", "-">> \o ToDec(self.index_deleted))
        r3 == PushIf(r2, self.wt_deleted > 0, <<"-">> \o ToDec(self.wt_deleted))
    IN  Join(r3, <<Space>>)

get_red(self) ==
    LET r1 == PushIf(<<>>, self.index_deleted > 0,
                     <<"+", "-">> \o ToDec(self.index_deleted))
        r2 == PushIf(r1, self.wt_deleted > 0, <<"-">> \o ToDec(self.wt_deleted))
        r3 == PushIf(r2, self.conflicted > 0, <<"c">> \o ToDec(self.conflicted))
    IN  Join(r3, <<Space>>)

\* Lines 90-94: the glyph when git_status.remote is not empty, "" when it is.
RemoteIndicator(gs) == IF gs.remote # EmptyStr THEN <<RemoteGlyph>> ELSE EmptyStr

\* BranchTag with the branch preferred to the tag.
BranchTag_branch_first(gs) == IF gs.branch = EmptyStr THEN gs.tag ELSE gs.branch

\* Lines 96-100.
BranchTag(gs) == IF gs.tag = EmptyStr THEN gs.branch ELSE gs.tag

\* Formatted with every category pushed, empty or not.
Formatted_unguarded(gs) ==
    LET v == <<RemoteIndicator(gs), BranchTag(gs), get_green(gs), get_yellow(gs),
               get_gray(gs), get_red(gs)>>
    IN  <<Space>> \o Trim(Join(v, <<Space>>))

\* Lines 88-130: the vector v of non-empty categories, joined, trimmed and
\* prefixed with one space.
Formatted(gs) ==
    LET v1 == PushIf(<<>>, RemoteIndicator(gs) # EmptyStr, RemoteIndicator(gs))
        v2 == PushIf(v1, BranchTag(gs) # EmptyStr, BranchTag(gs))
        v3 == PushIf(v2, get_green(gs) # EmptyStr, get_green(gs))
        v4 == PushIf(v3, get_yellow(gs) # EmptyStr, get_yellow(gs))
        v5 == PushIf(v4, get_gray(gs) # EmptyStr, get_gray(gs))
        v6 == PushIf(v5, get_red(gs) # EmptyStr, get_red(gs))
    IN  <<Space>> \o Trim(Join(v6, <<Space>>))

\* -------------------------------------------------------------- environment

\* engine.get_current_dir() (ok) and Path::is_dir() of what it returned.
CurrentDirs ==
    {[ok |-> FALSE, is_dir |-> FALSE],
     [ok |-> TRUE, is_dir |-> FALSE],
     [ok |-> TRUE, is_dir |-> TRUE]}

NoCurrentDir == [ok |-> FALSE, is_dir |-> FALSE]

\* One item of WalkDir::new(git_dir).into_iter(): the walk may fail on it
\* (flatten() drops it), its metadata may be unreadable, and it is a regular
\* file or not; len is metadata.len().
FileLens == {1, 500000000, 500000001}

WalkEntries ==
    {[walked |-> FALSE, meta |-> FALSE, is_file |-> FALSE, len |-> 0],
     [walked |-> TRUE, meta |-> FALSE, is_file |-> FALSE, len |-> 0],
     [walked |-> TRUE, meta |-> TRUE, is_file |-> FALSE, len |-> 4096]}
    \cup {[walked |-> TRUE, meta |-> TRUE, is_file |-> TRUE, len |-> n] : n \in FileLens}

Walks == UNION {[1..n -> WalkEntries] : n \in 0..MaxWalk}

\* <cwd>/.git: whether it is a directory, and what walking it yields.
GitDirs ==
    {[is_dir |-> FALSE, walk |-> <<>>]} \cup {[is_dir |-> TRUE, walk |-> w] : w \in Walks}

NoGitDir == [is_dir |-> FALSE, walk |-> <<>>]

\* Lines 68-75: the loop that sums the regular files' lengths into `size`.
\* The sums of the model stay far below 2^64, the width of `size`.
RECURSIVE WalkSize(_)
WalkSize(walk) ==
    IF walk = <<>> THEN 0
    ELSE LET entry == walk[Len(walk)]
             rest == WalkSize(SubSeq(walk, 1, Len(walk) - 1))
         IN  IF entry.walked /\ entry.meta /\ entry.is_file
             THEN rest + entry.len
             ELSE rest

\* The guard firing at the threshold itself.
TooBig_inclusive(sz) == sz >= SizeLimit

\* Line 77.
TooBig(sz) == sz > SizeLimit

\* A commit id is 20 bytes; these differ in their first four.
IdTail == [i \in 1..16 |-> 119]
CommitIds ==
    {<<222, 173, 190, 239>> \o IdTail,
     <<10, 27, 44, 61>> \o IdTail,
     <<0, 0, 0, 0>> \o IdTail}

NoId == [i \in 1..20 |-> 0]

\* What repo.head() and the calls of lines 187-237 answer.
\*   kind          Ok(reference), Err with code BareRepo, or another Err
\*   is_empty      repo.is_empty(): Ok(true), Ok(false) or Err
\*   shorthand     reference.shorthand(): None when the name is not UTF-8
\*   peel          reference.peel_to_commit()
\*   find_branch   repo.find_branch(name, Local) is Ok
\*   upstream      branch.upstream() is Ok
\*   local_target, upstream_target   the two target() are Some
\*   graph         repo.graph_ahead_behind(local, upstream)
\*   upstream_name upstream.name(): Ok(Some(v)), Ok(None) or Err
NoHead ==
    [kind |-> "unread", is_empty |-> "false",
     shorthand |-> [some |-> FALSE, v |-> EmptyStr],
     peel |-> [ok |-> FALSE, id |-> NoId],
     find_branch |-> FALSE, upstream |-> FALSE,
     local_target |-> FALSE, upstream_target |-> FALSE,
     graph |-> [ok |-> FALSE, ahead_x |-> 0, behind_x |-> 0],
     upstream_name |-> [ok |-> FALSE, some |-> FALSE, v |-> EmptyStr]]

UpstreamNames ==
    {[ok |-> TRUE, some |-> TRUE, v |-> S_upstream],
     [ok |-> TRUE, some |-> FALSE, v |-> EmptyStr],
     [ok |-> FALSE, some |-> FALSE, v |-> EmptyStr]}

Graphs(divs) ==
    {[ok |-> FALSE, ahead_x |-> 0, behind_x |-> 0]}
    \cup {[ok |-> TRUE, ahead_x |-> a, behind_x |-> b] : a \in divs, b \in divs}

FailedHeads ==
    {[NoHead EXCEPT !.kind = "bare"]}
    \cup {[NoHead EXCEPT !.kind = "err", !.is_empty = e] : e \in {"true", "false", "err"}}

DetachedHeads ==
    {[NoHead EXCEPT !.kind = "ok"],
     [NoHead EXCEPT !.kind = "ok", !.shorthand = [some |-> TRUE, v |-> S_HEAD]]}
    \cup {[NoHead EXCEPT !.kind = "ok", !.shorthand = [some |-> TRUE, v |-> S_HEAD],
                         !.peel = [ok |-> TRUE, id |-> c]] : c \in CommitIds}

BranchNames == {S_main, S_wide}

OnBranch(name) ==
    [NoHead EXCEPT !.kind = "ok", !.shorthand = [some |-> TRUE, v |-> name]]

BranchHeads(divs) ==
    UNION {
        {OnBranch(b), [OnBranch(b) EXCEPT !.find_branch = TRUE]}
        \cup {[OnBranch(b) EXCEPT !.find_branch = TRUE, !.upstream = TRUE,
                                  !.local_target = l, !.upstream_target = u,
                                  !.upstream_name = n] :
                 l \in BOOLEAN, u \in BOOLEAN, n \in UpstreamNames}
        \cup {[OnBranch(b) EXCEPT !.find_branch = TRUE, !.upstream = TRUE,
                                  !.local_target = TRUE, !.upstream_target = TRUE,
                                  !.graph = g, !.upstream_name = n] :
                 g \in Graphs(divs), n \in UpstreamNames} : b \in BranchNames}

\* What running `git describe --tags --abbrev=0` answers: whether the process
\* could be launched, its exit status, whether stdout is UTF-8, and stdout.
\* `run` tells a process that was run from one that has not been yet.
NoDescribe ==
    [run |-> FALSE, launched |-> FALSE, success |-> FALSE, utf8 |-> FALSE,
     stdout |-> EmptyStr]

Described(launched, success, utf8, stdout) ==
    [run |-> TRUE, launched |-> launched, success |-> success, utf8 |-> utf8,
     stdout |-> stdout]

Describes ==
    {Described(FALSE, FALSE, FALSE, EmptyStr),
     Described(TRUE, FALSE, TRUE, EmptyStr),
     Described(TRUE, TRUE, FALSE, EmptyStr),
     Described(TRUE, TRUE, TRUE, S_tag \o <<"\n">>),
     Described(TRUE, TRUE, TRUE, <<"\f">> \o S_tag \o <<"U+00A0", "\n">>)}

\* git2::Status is a set of flags; equality of two Status values is equality
\* of the sets. The flag each of the twelve file counters is compared with:
FlagOf ==
    [f \in FileCounters |->
        CASE f = "index_new" -> "INDEX_NEW"
          [] f = "index_modified" -> "INDEX_MODIFIED"
          [] f = "index_deleted" -> "INDEX_DELETED"
          [] f = "index_renamed" -> "INDEX_RENAMED"
          [] f = "index_typechange" -> "INDEX_TYPECHANGE"
          [] f = "wt_new" -> "WT_NEW"
          [] f = "wt_modified" -> "WT_MODIFIED"
          [] f = "wt_deleted" -> "WT_DELETED"
          [] f = "wt_renamed" -> "WT_RENAMED"
          [] f = "wt_typechange" -> "WT_TYPECHANGE"
          [] f = "ignored" -> "IGNORED"
          [] f = "conflicted" -> "CONFLICTED"]

SingleBit == {{FlagOf[f]} : f \in FileCounters}

\* Status values of several flags, as a file staged and then changed again has.
Composite == {{"INDEX_MODIFIED", "WT_MODIFIED"}, {"INDEX_NEW", "WT_DELETED"}}

StatusValues == SingleBit \cup Composite

\* Sets of at most k status values.
RECURSIVE KindSets(_)
KindSets(k) ==
    IF k = 0 THEN {{}}
    ELSE LET smaller == KindSets(k - 1)
         IN  smaller \cup {s \cup {e} : s \in smaller, e \in StatusValues}

\* The status list as a bag: how many entries have each status value. The
\* loop of lines 265-315 adds to counters only, so the entries' order is
\* immaterial.
StatusLists(k, copies) == UNION {[s -> copies] : s \in KindSets(k)}

\* repo.statuses(): not called yet ("unread"), Err, or Ok(list).
NoStatuses == [kind |-> "unread", list |-> EmptyBag]

StatusResults(k, copies) ==
    {[kind |-> "err", list |-> EmptyBag]}
    \cup {[kind |-> "ok", list |-> l] : l \in StatusLists(k, copies)}

\* --------------------------------------------------------- GitStatus::init

\* A cast that saturates instead of truncating.
AsU16_saturating(x) == IF x >= U16 THEN U16 - 1 ELSE x

\* `x as u16` of a usize: the low 16 bits.
AsU16(x) == x % U16

RECURSIVE HexOf(_)
HexOf(bytes) ==
    IF bytes = <<>> THEN EmptyStr ELSE LowerHex(Head(bytes)) \o HexOf(Tail(bytes))

\* Lines 192-196: the first four bytes of the commit id, each written with {:x}.
ShortId(id) == HexOf(SubSeq(id, 1, 4))

\* Lines 208-213: the counts are assigned only when both targets are Some
\* and graph_ahead_behind is Ok.
Computed(h) ==
    h.find_branch /\ h.upstream /\ h.local_target /\ h.upstream_target /\ h.graph.ok

AheadOf(h) == IF Computed(h) THEN AsU16(h.graph.ahead_x) ELSE 0
BehindOf(h) == IF Computed(h) THEN AsU16(h.graph.behind_x) ELSE 0

\* `remote` taken only inside the branch that assigns the counts.
RemoteOf_only_when_computed(h) ==
    IF h.find_branch /\ h.upstream /\ h.local_target /\ h.upstream_target /\ h.graph.ok
       /\ h.upstream_name.ok /\ h.upstream_name.some
    THEN h.upstream_name.v
    ELSE EmptyStr

\* Lines 203-226: the value assigned to `remote`.
RemoteOf(h) ==
    IF h.find_branch
    THEN IF h.upstream
         THEN IF h.upstream_name.ok /\ h.upstream_name.some
              THEN h.upstream_name.v
              ELSE EmptyStr
         ELSE EmptyStr
    ELSE EmptyStr

\* Lines 190, 200: HEAD resolved to a reference with a short name other than "HEAD".
NamesBranch(h) == h.kind = "ok" /\ h.shorthand.some /\ h.shorthand.v # S_HEAD

\* Lines 187-237: the value of `branch`.
BranchOf(h) ==
    IF h.kind = "ok"
    THEN IF h.shorthand.some
         THEN IF h.shorthand.v = S_HEAD
              THEN IF h.peel.ok THEN ShortId(h.peel.id) ELSE S_HEAD
              ELSE h.shorthand.v
         ELSE S_HEAD
    ELSE IF h.kind = "bare" THEN S_master
    ELSE IF h.is_empty = "true" THEN S_master
    ELSE S_HEAD

\* Lines 239-250.
TagOf(d) ==
    IF d.launched /\ d.success /\ d.utf8 THEN Trim(d.stdout) ELSE EmptyStr

\* Lines 266-314 for n entries of the same status value: each entry runs the
\* twelve comparisons, and `+= 1` runs n times on the one counter whose flag the
\* status equals; a u16 that is not overflow-checked wraps.
AddEntries(c, status, n) ==
    [f \in DOMAIN c |->
        IF f \in FileCounters /\ status = {FlagOf[f]} THEN (c[f] + n) % U16 ELSE c[f]]

\* Lines 265-315: statuses.iter().for_each(...).
RECURSIVE ForEach(_, _)
ForEach(c, list) ==
    IF DOMAIN list = {} THEN c
    ELSE LET status == CHOOSE s \in DOMAIN list : TRUE
             rest == [s \in DOMAIN list \ {status} |-> list[s]]
         IN  ForEach(AddEntries(c, status, list[status]), rest)

\* Some `+= 1` of the loop is applied to a counter that holds 65535.
Overflows(c, list) ==
    \E status \in DOMAIN list :
        \E f \in FileCounters : status = {FlagOf[f]} /\ c[f] + list[status] >= U16

None == [some |-> FALSE, v |-> InitLocal]
Some(gs) == [some |-> TRUE, v |-> gs]

\* ------------------------------------------------------------------ actions

Return(line, value) ==
    /\ pc' = "done"
    /\ ret' = line
    /\ result' = value

\* Lines 53-64.
GetCurrentDir ==
    /\ pc = "cwd"
    /\ \E c \in CurrentDirs :
          /\ current_dir' = c
          /\ IF ~c.ok THEN Return("L56", EmptyStr)
             ELSE IF ~c.is_dir THEN Return("L63", EmptyStr)
             ELSE pc' = "gitdir" /\ UNCHANGED <<ret, result>>
    /\ UNCHANGED <<git_dir, size, repo, head, describe, statuses, local, git_status>>

\* Lines 66-76: when .git is a directory, walk it and sum into `size`.
ScanGitDir(dirs) ==
    /\ pc = "gitdir"
    /\ \E g \in dirs :
          IF g.is_dir
          THEN git_dir' = g /\ size' = WalkSize(g.walk) /\ pc' = "size"
          ELSE pc' = "open" /\ UNCHANGED <<git_dir, size>>
    /\ UNCHANGED <<ret, result, current_dir, repo, head, describe, statuses, local,
                   git_status>>

\* Lines 77-80: the guard, and the end of the block that owns `size`.
CheckSize ==
    /\ pc = "size"
    /\ IF TooBig(size)
       THEN Return("L78", EmptyStr) /\ UNCHANGED <<git_dir, size>>
       ELSE /\ pc' = "open"
            /\ git_dir' = NoGitDir
            /\ size' = 0
            /\ UNCHANGED <<ret, result>>
    /\ UNCHANGED <<current_dir, repo, head, describe, statuses, local, git_status>>

\* Lines 82-86 and 160-185: Repository::open; on Err init returns None and run
\* returns "".
OpenRepository ==
    /\ pc = "open"
    /\ \E ok \in BOOLEAN :
          IF ok
          THEN repo' = "ok" /\ local' = InitLocal /\ pc' = "head"
               /\ UNCHANGED <<ret, result>>
          ELSE repo' = "err" /\ Return("L85", EmptyStr) /\ UNCHANGED local
    /\ UNCHANGED <<current_dir, git_dir, size, head, describe, statuses, git_status>>

\* Lines 187-237.
ResolveHead(heads) ==
    /\ pc = "head"
    /\ \E h \in heads :
          /\ head' = h
          /\ local' = [local EXCEPT !.branch = BranchOf(h),
                                    !.remote = IF NamesBranch(h) THEN RemoteOf(h) ELSE @,
                                    !.ahead = IF NamesBranch(h) THEN AheadOf(h) ELSE @,
                                    !.behind = IF NamesBranch(h) THEN BehindOf(h) ELSE @]
    /\ pc' = "tag"
    /\ UNCHANGED <<ret, result, current_dir, git_dir, size, repo, describe, statuses,
                   git_status>>

\* Lines 239-250.
DescribeTag(outputs) ==
    /\ pc = "tag"
    /\ \E d \in outputs :
          /\ describe' = d
          /\ local' = [local EXCEPT !.tag = TagOf(d)]
    /\ pc' = "statuses"
    /\ UNCHANGED <<ret, result, current_dir, git_dir, size, repo, head, statuses,
                   git_status>>

\* Lines 252-263 (and 82-86 when statuses() is Err).
GetStatuses(results) ==
    /\ pc = "statuses"
    /\ \E s \in results :
          /\ statuses' = s
          /\ IF s.kind = "ok"
             THEN pc' = "count" /\ UNCHANGED <<ret, result>>
             ELSE Return("L85", EmptyStr)
    /\ UNCHANGED <<current_dir, git_dir, size, repo, head, describe, local, git_status>>

\* Lines 265-336. A `+= 1` that overflows its u16 panics in a build with
\* overflow checks and wraps in a build without; a panic unwinds out of run
\* and no Value is returned.
CountStatuses ==
    /\ pc = "count"
    /\ \E overflow_checks \in BOOLEAN :
          IF overflow_checks /\ Overflows(local, statuses.list)
          THEN pc' = "panicked" /\ UNCHANGED <<local, git_status>>
          ELSE /\ local' = ForEach(local, statuses.list)
               /\ git_status' = Some(local')
               /\ pc' = "render"
    /\ UNCHANGED <<ret, result, current_dir, git_dir, size, repo, head, describe,
                   statuses>>

\* Lines 88-131.
Render ==
    /\ pc = "render"
    /\ git_status.some
    /\ Return("L131", Formatted(git_status.v))
    /\ UNCHANGED <<current_dir, git_dir, size, repo, head, describe, statuses, local,
                   git_status>>

\* ----------------------------------------------------------- specifications

Init ==
    /\ pc = "cwd"
    /\ ret = ""
    /\ result = EmptyStr
    /\ current_dir = NoCurrentDir
    /\ git_dir = NoGitDir
    /\ size = 0
    /\ repo = "unopened"
    /\ head = NoHead
    /\ describe = NoDescribe
    /\ statuses = NoStatuses
    /\ local = InitLocal
    /\ git_status = None

SmallDivs == 0..MaxDiv
Heads == FailedHeads \cup DetachedHeads \cup BranchHeads(SmallDivs)
Results == StatusResults(MaxKinds, {1})

\* One request, from the call of run to its return.
Next ==
    \/ GetCurrentDir
    \/ ScanGitDir(GitDirs)
    \/ CheckSize
    \/ OpenRepository
    \/ ResolveHead(Heads)
    \/ DescribeTag(Describes)
    \/ GetStatuses(Results)
    \/ CountStatuses
    \/ Render

Spec == Init /\ [][Next]_vars

\* The same request against a repository whose divergence counts and status
\* lists reach the width of the u16 counters.
WideDivs ==
    SmallDivs \cup {U16 - 1} \cup {k * U16 + d : k \in 1..MaxWraps, d \in SmallDivs}
WideCopies == {1, U16 - 1, U16, U16 + 1}
WideHeads == FailedHeads \cup DetachedHeads \cup BranchHeads(WideDivs)
WideResults == StatusResults(1, WideCopies)

NextWide ==
    \/ GetCurrentDir
    \/ ScanGitDir(GitDirs)
    \/ CheckSize
    \/ OpenRepository
    \/ ResolveHead(WideHeads)
    \/ DescribeTag(Describes)
    \/ GetStatuses(WideResults)
    \/ CountStatuses
    \/ Render

SpecWide == Init /\ [][NextWide]_vars

\* The renderer (lines 88-131) as a function of the GitStatus it is handed:
\* any value of the struct, its strings free of the ASCII space as git's
\* reference names are.
CounterValues == {1, 10, U16 - 1}

RECURSIVE NameSets(_)
NameSets(k) ==
    IF k = 0 THEN {{}}
    ELSE LET smaller == NameSets(k - 1)
         IN  smaller \cup {s \cup {CounterNames[i]} : s \in smaller, i \in 1..14}

Counters ==
    {[f \in {CounterNames[i] : i \in 1..14} |-> IF f \in DOMAIN c THEN c[f] ELSE 0] :
        c \in UNION {[s -> CounterValues] : s \in NameSets(MaxNonZero)}}
    \cup {[f \in {CounterNames[i] : i \in 1..14} |-> n] : n \in CounterValues}

Snapshots ==
    {[f \in FieldNames |->
         CASE f = "branch" -> b
           [] f = "tag" -> t
           [] f = "remote" -> r
           [] OTHER -> c[f]] :
        b \in {EmptyStr, S_main, S_wide, S_main_nbsp}, t \in {EmptyStr, S_tag},
        r \in {EmptyStr, S_upstream}, c \in Counters}

InitRender ==
    /\ pc = "render"
    /\ ret = ""
    /\ result = EmptyStr
    /\ current_dir = [ok |-> TRUE, is_dir |-> TRUE]
    /\ git_dir = NoGitDir
    /\ size = 0
    /\ repo = "ok"
    /\ head = NoHead
    /\ describe = NoDescribe
    /\ statuses = NoStatuses
    /\ local = InitLocal
    /\ git_status \in {Some(gs) : gs \in Snapshots}

NextRender == Render

SpecRender == InitRender /\ [][NextRender]_vars

\* ------------------------------------------------------------------- claims

Rendered == pc = "done" /\ ret = "L131"

\* The non-empty strings of v, in order.
NonEmpty(v) == SelectSeq(v, LAMBDA x : x # EmptyStr)

\* The strings of v with one space between neighbours.
Spaced(v) ==
    LET upto[i \in 0..Len(v)] ==
            IF i = 0 THEN EmptyStr
            ELSE IF i = 1 THEN v[1]
            ELSE upto[i - 1] \o <<Space>> \o v[i]
    IN  upto[Len(v)]

\* prefix{n}, absent when n is 0.
Segment(prefix, n) == IF n = 0 THEN EmptyStr ELSE prefix \o ToDec(n)

Category(segments) == Spaced(NonEmpty(segments))

\* The five categories of C1, each its non-zero counters' segments in order.
Categories(gs) ==
    <<  IF gs.tag # EmptyStr THEN gs.tag ELSE gs.branch,
        Category(<<Segment(<<"+">>, gs.index_new),
                   Segment(<<"+", "~">>, gs.index_modified),
                   Segment(<<"+", "-", ">">>, gs.index_renamed),
                   Segment(<<"+", "t">>, gs.index_typechange)>>),
        Category(<<Segment(<<"?">>, gs.wt_new),
                   Segment(<<"~">>, gs.wt_modified),
                   Segment(<<"-", ">">>, gs.wt_renamed),
                   Segment(<<"t">>, gs.wt_typechange),
                   Segment(<<UpArrow>>, gs.ahead),
                   Segment(<<DownArrow>>, gs.behind)>>),
        Category(<<Segment(<<"!">>, gs.ignored)>>),
        Category(<<Segment(<<"+", "-">>, gs.index_deleted),
                   Segment(<<"-">>, gs.wt_deleted),
                   Segment(<<"c">>, gs.conflicted)>>)>>

ExpectedBody(gs) == Category(Categories(gs))

\* The remote indicator before the five categories.
ExpectedBodyWithRemote(gs) ==
    Category(<<IF gs.remote # EmptyStr THEN <<RemoteGlyph>> ELSE EmptyStr>>
             \o Categories(gs))

\* Values of `remote` other than the one of the snapshots.
OtherRemotes == {<<"u">>, S_main}

\* C1: the body of the rendered line (what follows its leading space, the
\* white space around the joined body trimmed) is the non-empty categories
\* joined by single spaces in the order branch-or-tag, staged, unstaged,
\* ignored, conflict/deletion, each category its non-zero counters' segments in
\* the fixed order; a counter of 0 gives no segment, and the line is the same
\* whatever `remote` is.
C1_BodyIsCategoriesInOrder ==
    Rendered =>
        /\ result = <<Space>> \o Trim(ExpectedBody(git_status.v))
        /\ \A r \in {EmptyStr, S_upstream} \cup OtherRemotes :
              result = Formatted([git_status.v EXCEPT !.remote = r])

\* What the renderer does: the glyph of line 91 comes first when `remote` is
\* not empty, whatever non-empty value it has; with `remote` empty the line
\* is the five categories in order.
RenderedWithRemoteIndicator ==
    Rendered =>
        /\ result = <<Space>> \o Trim(ExpectedBodyWithRemote(git_status.v))
        /\ git_status.v.remote # EmptyStr =>
              /\ result[2] = RemoteGlyph
              /\ \A r \in OtherRemotes :
                    result = Formatted([git_status.v EXCEPT !.remote = r])
        /\ git_status.v.remote = EmptyStr =>
              result = <<Space>> \o Trim(ExpectedBody(git_status.v))

AllEmpty(gs) ==
    /\ gs.remote = EmptyStr
    /\ gs.branch = EmptyStr
    /\ gs.tag = EmptyStr
    /\ \A i \in 1..14 : gs[CounterNames[i]] = 0

\* C6: the rendered line begins with exactly one space, holds no two
\* consecutive spaces, and is the single space when every category (the
\* remote indicator among them) is empty.
C6_OneLeadingSpaceNoDoubleSpace ==
    Rendered =>
        /\ Len(result) >= 1
        /\ result[1] = Space
        /\ (Len(result) >= 2 => result[2] # Space)
        /\ \A i \in 1..(Len(result) - 1) : ~(result[i] = Space /\ result[i + 1] = Space)
        /\ AllEmpty(git_status.v) => result = <<Space>>

\* C6's case: the snapshot whose categories are all empty has been rendered.
C6_Witness == Rendered /\ AllEmpty(git_status.v) /\ result = <<Space>>

\* The summed length of the regular files among the walk's items.
RegularBytes(walk) ==
    LET upto[i \in 0..Len(walk)] ==
            IF i = 0 THEN 0
            ELSE upto[i - 1]
                 + (IF walk[i].walked /\ walk[i].meta /\ walk[i].is_file
                    THEN walk[i].len ELSE 0)
    IN  upto[Len(walk)]

NothingRead ==
    /\ repo = "unopened"
    /\ head = NoHead
    /\ describe = NoDescribe
    /\ statuses = NoStatuses
    /\ git_status = None

\* What holds of the guards in every state: a request stopped by the first
\* guard never looked at .git, `size` is the sum over the regular files, the
\* second guard stops exactly the sums above the threshold, and the
\* repository is opened only past both.
C2_GuardStates ==
    /\ (pc # "cwd" /\ ~(current_dir.ok /\ current_dir.is_dir)) =>
          /\ pc = "done" /\ result = EmptyStr
          /\ ret = (IF current_dir.ok THEN "L63" ELSE "L56")
          /\ git_dir = NoGitDir /\ NothingRead
    /\ pc = "size" => size = RegularBytes(git_dir.walk) /\ NothingRead
    /\ (pc # "size" /\ git_dir.is_dir) =>
          /\ RegularBytes(git_dir.walk) > SizeLimit
          /\ pc = "done" /\ ret = "L78" /\ result = EmptyStr
          /\ NothingRead
    /\ ret = "L78" => git_dir.is_dir /\ RegularBytes(git_dir.walk) > SizeLimit
    /\ repo # "unopened" => current_dir.ok /\ current_dir.is_dir /\ ret # "L78"

\* What the size check does with `size`: above the threshold it returns "",
\* at or below it the request goes on to open the repository.
C2_GuardSteps ==
    /\ (pc = "size" /\ RegularBytes(git_dir.walk) > SizeLimit) =>
          (pc' = "done" /\ ret' = "L78" /\ result' = EmptyStr /\ repo' = "unopened")
    /\ (pc = "size" /\ RegularBytes(git_dir.walk) <= SizeLimit) =>
          (pc' = "open" /\ ret' = "")

\* C2: the guards run in order before the repository is touched and each ends
\* the request with "": (1) no current directory, or not a directory; (2) .git
\* is a directory whose regular files sum to more than 1,000,000,000 bytes.
\* When (2) fires nothing of the repository has been read; a sum of exactly
\* 1,000,000,000 lets the request go on to open the repository.
C2_PreGuards == [](C2_GuardStates) /\ [][C2_GuardSteps]_vars

\* C2's case: the size guard has fired on a .git one byte over the threshold.
C2_Witness ==
    /\ pc = "done" /\ ret = "L78" /\ result = EmptyStr
    /\ RegularBytes(git_dir.walk) = SizeLimit + 1
    /\ repo = "unopened"

\* The request has reached the size check with exactly 1,000,000,000 bytes.
C2_AtThreshold == pc = "size" /\ size = SizeLimit

HeadRead == head.kind # "unread"

\* The first four bytes of a commit id in hex, two digits a byte.
Hex8(id) ==
    LET two(b) == <<HexDigits[(b \div 16) + 1], HexDigits[(b % 16) + 1]>>
    IN  two(id[1]) \o two(id[2]) \o two(id[3]) \o two(id[4])

Detached(h) == h.kind = "ok" /\ h.shorthand.some /\ h.shorthand.v = S_HEAD

\* The chain of C4 with the branch of a peeled detached HEAD left open.
C4_ChainBesidesHash ==
    HeadRead =>
        /\ local.branch # EmptyStr
        /\ (head.kind = "ok" /\ head.shorthand.some /\ head.shorthand.v # S_HEAD) =>
              local.branch = head.shorthand.v
        /\ (Detached(head) /\ ~head.peel.ok) => local.branch = S_HEAD
        /\ (head.kind = "bare" \/ (head.kind = "err" /\ head.is_empty = "true")) =>
              local.branch = S_master
        /\ (head.kind = "err" /\ head.is_empty # "true") => local.branch = S_HEAD
        /\ pc \in {"tag", "statuses"} \/ describe.run
        /\ pc \in {"tag", "statuses"} \/ statuses.kind # "unread"

\* After the branch is resolved the tag is looked up, and then the statuses
\* are asked for, whatever the branch came out as.
C4_GoesOn ==
    /\ pc = "head" => pc' = "tag" /\ ret' = ""
    /\ pc = "tag" => pc' = "statuses" /\ ret' = ""
    /\ pc = "statuses" => statuses'.kind # "unread"

C4_RestOfChain == [](C4_ChainBesidesHash) /\ [][C4_GoesOn]_vars

\* C4: once the repository opens, `branch` is never empty and is (1) the short
\* name of HEAD's reference when that is not "HEAD"; (2) the short commit hash
\* when it is "HEAD", or "HEAD" if HEAD cannot be peeled; (3) "master" on a
\* bare-repository error or on any error of an empty repository; (4) "HEAD" on
\* any other failure; and collection goes on to the tag and the statuses.
C4_BranchChain ==
    /\ C4_ChainBesidesHash
    /\ (HeadRead /\ Detached(head) /\ head.peel.ok) => local.branch = Hex8(head.peel.id)

\* C5: with HEAD detached at a commit, `branch` is the hex of the first four
\* bytes of the commit id and is eight characters long whatever the bytes; with
\* no tag and no changes the line is a space and that prefix.
C5_EightHexChars ==
    (HeadRead /\ Detached(head) /\ head.peel.ok) =>
        /\ Len(local.branch) = 8
        /\ local.branch = Hex8(head.peel.id)
        /\ (Rendered /\ local.tag = EmptyStr /\ statuses.list = EmptyBag) =>
              result = <<Space>> \o Hex8(head.peel.id)

S_scenario ==
    <<" ", "v", "1", ".", "2", ".", "0", " ", "+", "~", "1", " ", "c", "1">>

\* One staged-modified file and one conflicted file: libgit2 reports a path
\* with index conflicts as CONFLICTED alone.
ScenarioList == SetToBag({{"INDEX_MODIFIED"}, {"CONFLICTED"}})

Scenario ==
    /\ describe = Described(TRUE, TRUE, TRUE, S_tag \o <<"\n">>)
    /\ statuses = [kind |-> "ok", list |-> ScenarioList]
    /\ local.ahead = 0
    /\ local.behind = 0

\* C7: with one staged-modified file, one conflicted file and the reachable
\* tag v1.2.0 (and no divergence from an upstream) the request returns
\* " v1.2.0 +~1 c1": the tag stands where the branch would, each file is
\* counted once.
C7_TagAndConflictScenario ==
    (Rendered /\ Scenario) =>
        /\ result = S_scenario
        /\ git_status.v.index_modified = 1
        /\ git_status.v.conflicted = 1

\* What the code returns in that scenario: the line of C7 when `remote` is
\* empty, and the glyph of line 91 before it when it is not.
ScenarioByRemote ==
    (Rendered /\ Scenario) =>
        /\ local.remote = EmptyStr => result = S_scenario
        /\ local.remote # EmptyStr =>
              result = <<Space, RemoteGlyph>> \o S_scenario
        /\ git_status.v.index_modified = 1
        /\ git_status.v.conflicted = 1

\* The tokens of line s (its maximal runs without a space) that start with
\* the character c.
TokensFrom(s, c) ==
    {SubSeq(s, i, j) : i \in 1..Len(s), j \in 1..Len(s)} \cap
    {SubSeq(s, i, j) : <<i, j>> \in
        {<<i, j>> \in (1..Len(s)) \X (1..Len(s)) :
            /\ i <= j
            /\ s[i] = c
            /\ (i = 1 \/ s[i - 1] = Space)
            /\ (j = Len(s) \/ s[j + 1] = Space)
            /\ \A k \in i..j : s[k] # Space}}

AllResolved(h) ==
    /\ h.kind = "ok" /\ h.shorthand.some /\ h.shorthand.v # S_HEAD
    /\ h.find_branch /\ h.upstream /\ h.local_target /\ h.upstream_target /\ h.graph.ok

\* The stored count n is the true count x less a multiple of 2^16.
Narrowed(x, n) == n \in 0..(U16 - 1) /\ \E q \in 0..(MaxWraps + 1) : x = q * U16 + n

ArrowShows(line, arrow, n) ==
    TokensFrom(line, arrow) = (IF n = 0 THEN {} ELSE {<<arrow>> \o ToDec(n)})

\* C10: the stored ahead and behind are the repository's counts modulo 2^16;
\* a count that is a non-zero multiple of 65536 is stored as 0 and has no
\* arrow segment in the line, and a count of 65536 + k is shown as k.
C10_DivergenceModulo ==
    (HeadRead /\ AllResolved(head)) =>
        /\ Narrowed(head.graph.ahead_x, local.ahead)
        /\ Narrowed(head.graph.behind_x, local.behind)
        /\ Rendered =>
              /\ ArrowShows(result, UpArrow, local.ahead)
              /\ ArrowShows(result, DownArrow, local.behind)

\* C10's case: a line was rendered for a branch 65536 commits ahead (no up
\* arrow) and 65537 behind (shown as 1).
C10_Witness ==
    /\ Rendered /\ AllResolved(head)
    /\ head.graph.ahead_x = U16 /\ local.ahead = 0
    /\ TokensFrom(result, UpArrow) = {}
    /\ head.graph.behind_x = U16 + 1
    /\ TokensFrom(result, DownArrow) = {<<DownArrow, "1">>}

OnNamedBranch(h) == h.kind = "ok" /\ h.shorthand.some /\ h.shorthand.v # S_HEAD

NameReadable(h) == h.upstream_name.ok /\ h.upstream_name.some

\* Some step of the upstream resolution failed.
UpstreamFailure(h) ==
    \/ ~h.find_branch
    \/ ~h.upstream
    \/ ~h.local_target
    \/ ~h.upstream_target
    \/ ~h.graph.ok
    \/ ~NameReadable(h)

NotAnError == pc # "panicked" /\ (pc = "done" => statuses.kind # "unread")

\* C9 as stated: on a named branch any failure of the upstream resolution
\* gives ahead = 0, behind = 0 and remote = "" together, none is an error, and
\* remote is non-empty only when the counts were computed.
C9_AnyFailureClearsAll ==
    (HeadRead /\ OnNamedBranch(head)) =>
        /\ UpstreamFailure(head) =>
              local.ahead = 0 /\ local.behind = 0 /\ local.remote = EmptyStr
        /\ local.remote # EmptyStr =>
              (head.local_target /\ head.upstream_target /\ head.graph.ok)
        /\ NotAnError

\* C9 as the code has it: no failure of the upstream resolution is an error,
\* and each clears the fields it feeds. Without a local branch or an upstream
\* all three are cleared; a missing target or a failed graph computation
\* clears ahead and behind while remote is still the upstream's name when that
\* is readable; an unreadable name clears remote alone, ahead and behind
\* keeping the counts that were computed. remote is non-empty
\* exactly when the upstream was found and its name is readable.
C9_EachFailureClearsItsFields ==
    (HeadRead /\ OnNamedBranch(head)) =>
        /\ (~head.find_branch \/ ~head.upstream) =>
              local.ahead = 0 /\ local.behind = 0 /\ local.remote = EmptyStr
        /\ (~head.local_target \/ ~head.upstream_target \/ ~head.graph.ok) =>
              local.ahead = 0 /\ local.behind = 0
        /\ (head.find_branch /\ head.upstream /\ NameReadable(head)) =>
              local.remote = head.upstream_name.v
        /\ ~NameReadable(head) => local.remote = EmptyStr
        /\ (head.find_branch /\ head.upstream /\ head.local_target
            /\ head.upstream_target /\ head.graph.ok) =>
              /\ local.ahead = head.graph.ahead_x % U16
              /\ local.behind = head.graph.behind_x % U16
        /\ local.remote # EmptyStr <=>
              (head.find_branch /\ head.upstream /\ NameReadable(head)
               /\ head.upstream_name.v # EmptyStr)
        /\ NotAnError

\* C9's case: the upstream has no target, so no counts were computed, and
\* remote still holds the upstream's name.
C9_Witness ==
    /\ HeadRead /\ OnNamedBranch(head)
    /\ head.find_branch /\ head.upstream /\ ~head.upstream_target
    /\ local.ahead = 0 /\ local.behind = 0
    /\ local.remote = S_upstream
    /\ Rendered

\* The entries of the list whose status is one of the twelve single flags.
SingleBitEntries(list) ==
    BagCardinality([s \in DOMAIN list \cap SingleBit |-> list[s]])

SumOfFileCounters(gs) ==
    LET upto[i \in 0..12] ==
            IF i = 0 THEN 0 ELSE upto[i - 1] + gs[CounterNames[i]]
    IN  upto[12]

\* C8: each entry whose status is a single flag adds one to that flag's
\* counter and to no other, a composite entry adds to none; so after the loop
\* each counter is the number of entries with its flag, the twelve sum to the
\* number of single-flag entries, and that is at most the number of entries.
C8_CountersCountEntries ==
    git_status.some =>
        /\ \A f \in FileCounters :
              git_status.v[f] = CopiesIn({FlagOf[f]}, statuses.list)
        /\ SumOfFileCounters(git_status.v) = SingleBitEntries(statuses.list)
        /\ SumOfFileCounters(git_status.v) <= BagCardinality(statuses.list)

TagFailed(d) == ~(d.launched /\ d.success /\ d.utf8)

\* What C3 says of the failures that are answered, the end of every request aside.
C3_FailuresAnswered ==
    /\ repo = "err" => pc = "done" /\ ret = "L85" /\ result = EmptyStr
    /\ statuses.kind = "err" =>
          /\ pc = "done" /\ ret = "L85" /\ result = EmptyStr
          /\ git_status = None
          /\ local.branch # EmptyStr /\ describe.run
    /\ (describe.run /\ TagFailed(describe)) => local.tag = EmptyStr
    /\ (HeadRead /\ OnNamedBranch(head) /\ ~(head.find_branch /\ head.upstream)) =>
          local.ahead = 0 /\ local.behind = 0 /\ local.remote = EmptyStr
    /\ (pc = "done" /\ statuses.kind = "ok") =>
          Rendered /\ git_status.some /\ Len(result) >= 1
    /\ pc = "done" => ret # ""

\* C3: a request never ends in an error and never with a partial snapshot:
\* a failed open or a failed status enumeration gives "", a failed tag lookup,
\* upstream lookup or graph computation gives the field's default and a
\* non-empty line, and every request ends with one string.
C3_NeverAnError ==
    /\ C3_FailuresAnswered
    /\ pc # "panicked"

====
